---- MODULE Spec2Model ----
(***************************************************************************)
(* Model of the serverless Service KRM function of kubed-io/krm-py:        *)
(* kubed/kustomize/service.py (transform and its generators).              *)
(*                                                                         *)
(* Python dicts are functions with a string domain ("k" in d is            *)
(* k \in DOMAIN d), Python lists are sequences, byte strings are sequences *)
(* of integers 0..255.  The empty dict and the empty list are both <<>>.   *)
(***************************************************************************)
EXTENDS Integers, Sequences, FiniteSets, TLC

VARIABLES
    krm,          \* the ResourceList handed to transform; transform mutates krm["items"] in place
    input,        \* the ResourceList as it was on entry to the current invocation
    status,       \* "ready" (not yet called), "ok" (transform returned), "failed" (plugin_fail)
    clock,        \* wall clock in seconds: the mtime the filesystem gives a file written now
    run,          \* number of the current invocation on this input
    prev_items,   \* krm["items"] as returned by the previous successful invocation
    m_defaults,   \* merge_function_config: argument defaults
    m_overrides,  \* merge_function_config: argument overrides
    m_config,     \* merge_function_config: returned config ([called |-> FALSE] before the call)
    p_pc,         \* publish: the step publish is at ("exit": sys.exit(1), "done": returned)
    p_file,       \* publish: the service file on disk, [exists, doc]
    p_file0,      \* publish: the service file as it was when publish was called
    p_dir,        \* publish: names of the other files of the source directory
    p_args,       \* publish: [bucket |-> the -b argument, env |-> $FX_BUCKET], None when not given
    p_zip,        \* publish: what pack returned, [made, name, checksum]
    p_tmp,        \* publish: archives present in /tmp
    p_store,      \* publish: objects in the object store, [bucket, name, public]
    p_log,        \* publish: the gsutil calls made and the writes of the service file, in order
    p_exit        \* publish: the step that called sys.exit(1), None while none has

pvars == <<p_pc, p_file, p_file0, p_dir, p_args, p_zip, p_tmp, p_store, p_log, p_exit>>

vars == <<krm, input, status, clock, run, prev_items, m_defaults, m_overrides, m_config, p_pc, p_file, p_file0, p_dir, p_args, p_zip, p_tmp, p_store, p_log, p_exit>>

(***************************************************************************)
(* Bounds of the model.                                                    *)
(***************************************************************************)
MaxFunctions == 2   \* longest spec.functions list drawn
MaxClock == 2       \* the clock runs from 0 to MaxClock seconds
MaxRuns == 2        \* invocations of transform on the same input

(***************************************************************************)
(* Python values.                                                          *)
(***************************************************************************)
None == "<None>"
EmptyDict == <<>>

Has(d, k) == k \in DOMAIN d
Get(d, k, dflt) == IF k \in DOMAIN d THEN d[k] ELSE dflt
Put(d, k, v) == (k :> v) @@ d
Truthy(v) == v # None /\ v # ""

(***************************************************************************)
(* merge_function_config                                                   *)
(***************************************************************************)
MergeableKeys ==
    <<"invokeStrategy", "requestsPerPod", "retainPods", "concurrency",
      "functionTimeout", "idletimeout", "onceOnly", "resources", "podspec">>

RECURSIVE merge_loop(_, _, _)
merge_loop(config, overrides, i) ==
    IF i > Len(MergeableKeys) THEN config
    ELSE LET key == MergeableKeys[i] IN
         merge_loop(IF Has(overrides, key) THEN Put(config, key, overrides[key]) ELSE config,
                    overrides, i + 1)

\* a merge that copies every field of overrides (config.update(overrides))
merge_function_config_update(defaults, overrides) == overrides @@ defaults

merge_function_config(defaults, overrides) == merge_loop(defaults, overrides, 1)

(***************************************************************************)
(* The literal source packager inside generate_package.                    *)
(* ZipFile.write(main_py, "main.py") records the mtime of the file just    *)
(* written in the member's header, as a DOS time of 2-second resolution.   *)
(* The archive is the signature, the member's DOS time and the member's    *)
(* data; SHA-256 is a collision-free digest of the bytes it is given.      *)
(***************************************************************************)
DosTime(mtime) == (mtime \div 2) % 30

zip_bytes(data, mtime) == <<80, 75, DosTime(mtime)>> \o data

B64Pad == 64

RECURSIVE b64encode(_)
b64encode(bs) ==
    IF Len(bs) = 0 THEN <<>>
    ELSE IF Len(bs) = 1 THEN
        <<bs[1] \div 4, (bs[1] % 4) * 16, B64Pad, B64Pad>>
    ELSE IF Len(bs) = 2 THEN
        <<bs[1] \div 4, (bs[1] % 4) * 16 + bs[2] \div 16, (bs[2] % 16) * 4, B64Pad>>
    ELSE
        <<bs[1] \div 4, (bs[1] % 4) * 16 + bs[2] \div 16,
          (bs[2] % 16) * 4 + bs[3] \div 64, bs[3] % 64>>
        \o b64encode(SubSeq(bs, 4, Len(bs)))

sha256_hexdigest(bs) == [sha256_of |-> bs]

(***************************************************************************)
(* generate_package                                                        *)
(***************************************************************************)
\* an inference that lets the presence of `literal` win over an explicit type
inferred_type_literal_first(source_spec) ==
    IF Has(source_spec, "literal") THEN "literal"
    ELSE IF Has(source_spec, "type") THEN source_spec["type"]
    ELSE IF Has(source_spec, "url") THEN "url"
    ELSE None

inferred_type(source_spec) ==
    IF Has(source_spec, "type") THEN source_spec["type"]
    ELSE IF Has(source_spec, "literal") THEN "literal"
    ELSE IF Has(source_spec, "url") THEN "url"
    ELSE None

literal_source(source_spec, mtime) ==
    LET zipb == zip_bytes(source_spec["literal"], mtime) IN
    [type |-> "literal",
     literal |-> b64encode(zipb),
     checksum |-> [type |-> "sha256", sum |-> sha256_hexdigest(zipb)]]

copied_source(source_spec) ==
    LET t == inferred_type(source_spec)
        typed == IF ~Has(source_spec, "type")
                 THEN Put(source_spec, "type", IF t # None THEN t ELSE "url")
                 ELSE source_spec
    IN  IF Has(typed, "checksum") /\ ~Has(typed["checksum"], "type")
        THEN Put(typed, "checksum", Put(typed["checksum"], "type", "sha256"))
        ELSE typed

package_source(source_spec, mtime) ==
    IF inferred_type(source_spec) = "literal" /\ Has(source_spec, "literal")
    THEN literal_source(source_spec, mtime)
    ELSE copied_source(source_spec)

generate_package(name, namespace, labels, package_spec, env_name, env_namespace, buildcmd, mtime) ==
    LET meta0 == [name |-> name, namespace |-> namespace]
        meta == IF labels # EmptyDict THEN Put(meta0, "labels", labels) ELSE meta0
        spec0 == [environment |-> [name |-> env_name, namespace |-> env_namespace]]
        spec1 == IF Has(package_spec, "source")
                 THEN Put(spec0, "source", package_source(package_spec["source"], mtime))
                 ELSE spec0
        spec2 == IF Truthy(buildcmd) THEN Put(spec1, "buildcmd", buildcmd) ELSE spec1
    IN  [apiVersion |-> "fission.io/v1",
         kind |-> "Package",
         metadata |-> meta,
         spec |-> spec2,
         status |-> [buildstatus |-> "pending"]]

(***************************************************************************)
(* generate_function                                                       *)
(***************************************************************************)
DefaultInvokeStrategy ==
    [StrategyType |-> "execution", ExecutionStrategy |-> [ExecutorType |-> "poolmgr"]]

optional_fields ==
    <<"requestsPerPod", "retainPods", "concurrency", "functionTimeout",
      "idletimeout", "onceOnly", "resources", "podspec">>

RECURSIVE optional_loop(_, _, _)
optional_loop(spec, func_config, i) ==
    IF i > Len(optional_fields) THEN spec
    ELSE LET field == optional_fields[i] IN
         optional_loop(IF Has(func_config, field) THEN Put(spec, field, func_config[field]) ELSE spec,
                       func_config, i + 1)

generate_function(name, namespace, labels, description, function_name, package_name, package_namespace, env_name, env_namespace, secrets, configmaps, func_config) ==
    LET meta0 == [name |-> name, namespace |-> namespace]
        meta1 == IF labels # EmptyDict THEN Put(meta0, "labels", labels) ELSE meta0
        meta2 == IF Truthy(description)
                 THEN Put(meta1, "annotations", ("kubernetes.io/description" :> description))
                 ELSE meta1
        spec0 == [environment |-> [name |-> env_name, namespace |-> env_namespace],
                  package |-> [packageref |-> [name |-> package_name, namespace |-> package_namespace],
                               functionName |-> function_name]]
        spec1 == IF secrets # <<>> THEN Put(spec0, "secrets", secrets) ELSE spec0
        spec2 == IF configmaps # <<>> THEN Put(spec1, "configmaps", configmaps) ELSE spec1
        spec3 == Put(spec2, "InvokeStrategy",
                     IF Has(func_config, "invokeStrategy") THEN func_config["invokeStrategy"]
                     ELSE DefaultInvokeStrategy)
    IN  [apiVersion |-> "fission.io/v1",
         kind |-> "Function",
         metadata |-> meta2,
         spec |-> optional_loop(spec3, func_config, 1)]

(***************************************************************************)
(* generate_http_trigger                                                   *)
(***************************************************************************)
\* a path inference that tests the name equality before the explicit path
trigger_path_name_first(service_name, short_function_name, trigger_spec) ==
    IF short_function_name = service_name THEN "/" \o service_name
    ELSE IF Has(trigger_spec, "path") THEN trigger_spec["path"]
    ELSE "/" \o service_name \o "/" \o short_function_name

trigger_path(service_name, short_function_name, trigger_spec) ==
    IF Has(trigger_spec, "path") THEN trigger_spec["path"]
    ELSE IF short_function_name = service_name THEN "/" \o service_name
    ELSE "/" \o service_name \o "/" \o short_function_name

generate_http_trigger(name, namespace, labels, function_name, service_name, short_function_name, trigger_spec) ==
    LET meta0 == [name |-> name, namespace |-> namespace]
        meta == IF labels # EmptyDict THEN Put(meta0, "labels", labels) ELSE meta0
    IN  [apiVersion |-> "fission.io/v1",
         kind |-> "HTTPTrigger",
         metadata |-> meta,
         spec |-> [host |-> Get(trigger_spec, "host", ""),
                   method |-> Get(trigger_spec, "method", "GET"),
                   relativeurl |-> trigger_path(service_name, short_function_name, trigger_spec),
                   functionref |-> [type |-> "name", name |-> function_name]]]

(***************************************************************************)
(* transform                                                               *)
(***************************************************************************)
plugin_fail(items) == [items |-> items, status |-> "failed"]

unnamed_count(functions_list) ==
    Cardinality({i \in 1..Len(functions_list) : ~Has(functions_list[i], "name")})

short_name(func_def, service_name) == Get(func_def, "name", service_name)

\* a naming rule that forgets to test whether the name was given
func_name_by_equality(func_def, service_name) ==
    IF short_name(func_def, service_name) = service_name
    THEN service_name
    ELSE service_name \o "-" \o short_name(func_def, service_name)

func_name(func_def, service_name) ==
    IF short_name(func_def, service_name) = service_name /\ ~Has(func_def, "name")
    THEN service_name
    ELSE service_name \o "-" \o short_name(func_def, service_name)

\* a resolution that takes an empty list for an absent one
func_secrets_falsy(func_def, function_defaults) ==
    IF Has(func_def, "secrets") /\ func_def["secrets"] # <<>> THEN func_def["secrets"]
    ELSE IF Has(function_defaults, "secrets") THEN function_defaults["secrets"]
    ELSE <<>>

func_secrets(func_def, function_defaults) ==
    IF Has(func_def, "secrets") THEN func_def["secrets"]
    ELSE IF Has(function_defaults, "secrets") THEN function_defaults["secrets"]
    ELSE <<>>

func_configmaps(func_def, function_defaults) ==
    IF Has(func_def, "configmaps") THEN func_def["configmaps"]
    ELSE IF Has(function_defaults, "configmaps") THEN function_defaults["configmaps"]
    ELSE <<>>

func_triggers(func_def, function_defaults) ==
    IF Has(func_def, "triggers") THEN func_def["triggers"]
    ELSE IF Has(function_defaults, "triggers") THEN function_defaults["triggers"]
    ELSE <<>>

normalize_refs(refs, namespace) ==
    [i \in 1..Len(refs) |->
        [name |-> refs[i]["name"], namespace |-> Get(refs[i], "namespace", namespace)]]

RECURSIVE trigger_loop(_, _, _, _, _)
trigger_loop(items, triggers, j, func_def, ctx) ==
    IF j > Len(triggers) THEN items
    ELSE trigger_loop(
            Append(items,
                   generate_http_trigger(func_name(func_def, ctx.service_name), ctx.namespace,
                                         ctx.labels, func_name(func_def, ctx.service_name),
                                         ctx.service_name,
                                         short_name(func_def, ctx.service_name),
                                         Get(triggers[j], "http", EmptyDict))),
            triggers, j + 1, func_def, ctx)

\* a loop body that appends the Function after its HTTPTriggers
function_body_triggers_first(items, func_def, ctx) ==
    LET func_config == merge_function_config(ctx.function_defaults, func_def)
        secrets == normalize_refs(func_secrets(func_def, ctx.function_defaults), ctx.namespace)
        configmaps == normalize_refs(func_configmaps(func_def, ctx.function_defaults), ctx.namespace)
        function == generate_function(func_name(func_def, ctx.service_name), ctx.namespace,
                                      ctx.labels, Get(func_def, "description", None),
                                      func_def["functionName"], ctx.package_name, ctx.namespace,
                                      ctx.env_name, ctx.env_namespace, secrets, configmaps,
                                      func_config)
    IN  Append(trigger_loop(items, func_triggers(func_def, ctx.function_defaults),
                            1, func_def, ctx),
               function)

function_body(items, func_def, ctx) ==
    LET func_config == merge_function_config(ctx.function_defaults, func_def)
        secrets == normalize_refs(func_secrets(func_def, ctx.function_defaults), ctx.namespace)
        configmaps == normalize_refs(func_configmaps(func_def, ctx.function_defaults), ctx.namespace)
        function == generate_function(func_name(func_def, ctx.service_name), ctx.namespace,
                                      ctx.labels, Get(func_def, "description", None),
                                      func_def["functionName"], ctx.package_name, ctx.namespace,
                                      ctx.env_name, ctx.env_namespace, secrets, configmaps,
                                      func_config)
    IN  trigger_loop(Append(items, function), func_triggers(func_def, ctx.function_defaults),
                     1, func_def, ctx)

RECURSIVE function_loop(_, _, _, _)
function_loop(items, functions, i, ctx) ==
    IF i > Len(functions) THEN items
    ELSE function_loop(function_body(items, functions[i], ctx), functions, i + 1, ctx)

\* a validation that rejects only two or more unnamed functions
functions_rejected_two_unnamed(functions_list) == unnamed_count(functions_list) > 1

functions_rejected(functions_list) ==
    unnamed_count(functions_list) > 0 /\ Len(functions_list) > 1

transform(k, mtime) ==
    LET service == k["functionConfig"]
        metadata == service["metadata"]
        spec == service["spec"]
        service_name == metadata["name"]
        namespace == Get(metadata, "namespace", "default")
        labels == Get(metadata, "labels", EmptyDict)
        package_spec == Get(spec, "package", EmptyDict)
        package_name == Get(package_spec, "name", service_name)
        env_spec == spec["environment"]
        env_name == env_spec["name"]
        env_namespace == Get(env_spec, "namespace", namespace)
        function_defaults == Get(spec, "functionTemplate", EmptyDict)
        ctx == [service_name |-> service_name, namespace |-> namespace, labels |-> labels,
                package_name |-> package_name, env_name |-> env_name,
                env_namespace |-> env_namespace, function_defaults |-> function_defaults]
        package == generate_package(package_name, namespace, labels, package_spec, env_name,
                                    env_namespace, Get(package_spec, "buildcmd", None), mtime)
        items1 == Append(k["items"], package)
        functions_list == Get(spec, "functions", <<>>)
    IN  IF functions_list = <<>> THEN plugin_fail(items1)
        ELSE IF functions_rejected(functions_list) THEN plugin_fail(items1)
        ELSE [items |-> function_loop(items1, spec["functions"], 1, ctx), status |-> "ok"]

(***************************************************************************)
(* Inputs: the Service documents and ResourceLists transform is run on.    *)
(***************************************************************************)
Restrict(d, keys) == [k \in keys |-> d[k]]

ServiceHead == [apiVersion |-> "serverless.krm.kubed.io/v1", kind |-> "Service"]

ServiceHeads ==
    {ServiceHead,
     [apiVersion |-> "serverless.krm.kubed.io/v1", kind |-> "Deployment"],
     [apiVersion |-> "apps/v1", kind |-> "Service"],
     [apiVersion |-> "v1", kind |-> "ConfigMap"]}

Metadatas ==
    {[name |-> "hello"],
     [name |-> "api", namespace |-> "prod", labels |-> [app |-> "api"]]}

Environment == [name |-> "python"]

CodeHi == <<104, 105>>
CodePrint == <<112, 114, 105, 110, 116, 40, 41>>
StaleSum == sha256_hexdigest(<<0>>)

Sources ==
    {[literal |-> CodeHi],
     [type |-> "literal", literal |-> CodePrint, url |-> "https://example.com/a.zip",
      checksum |-> [type |-> "md5", sum |-> StaleSum]],
     [type |-> "url", literal |-> CodeHi],
     [url |-> "https://example.com/a.zip", checksum |-> [sum |-> StaleSum]],
     [literal |-> CodePrint, url |-> "https://example.com/a.zip"],
     [type |-> "literal"],
     EmptyDict}

PackageSpecs ==
    {[name |-> "pkg", buildcmd |-> "build.sh"]}
    \cup {[source |-> s] : s \in Sources}

TriggerPlain == EmptyDict
TriggerPath == [http |-> [path |-> "/custom", host |-> "example.com"]]
TriggerPost == [http |-> [method |-> "POST"]]

FunctionNames == {"api", "list", "get"}

NameOpts == {EmptyDict} \cup {[name |-> n] : n \in FunctionNames}

TriggerOpts ==
    {EmptyDict, [triggers |-> <<TriggerPlain>>], [triggers |-> <<TriggerPath, TriggerPost>>]}

SecretOpts == {EmptyDict, [secrets |-> <<>>], [secrets |-> <<[name |-> "s1"]>>]}

ConfigmapOpts ==
    {EmptyDict, [configmaps |-> <<>>],
     [configmaps |-> <<[name |-> "c1", namespace |-> "shared"]>>]}

NoMergeTriggerOpts == {EmptyDict, [triggers |-> <<>>], [triggers |-> <<TriggerPost>>]}

MergeableOpts ==
    {EmptyDict,
     [concurrency |-> 9, resources |-> [limits |-> [cpu |-> "2"]], description |-> "worker"]}

EntryPoint == [functionName |-> "main.handler"]

NamingFuncDefs == {n @@ t @@ EntryPoint : n \in NameOpts, t \in TriggerOpts}

NoMergeFuncDefs ==
    {s @@ c @@ t @@ m @@ EntryPoint :
        s \in SecretOpts, c \in ConfigmapOpts, t \in NoMergeTriggerOpts, m \in MergeableOpts}

FullTemplate ==
    [secrets |-> <<[name |-> "s0"]>>,
     configmaps |-> <<[name |-> "c0"]>>,
     triggers |-> <<[http |-> [method |-> "PUT"]]>>,
     concurrency |-> 5,
     resources |-> [limits |-> [cpu |-> "1", memory |-> "1Gi"]]]

Templates == {Restrict(FullTemplate, {}), Restrict(FullTemplate, {"triggers"}), FullTemplate}

SeqsUpTo(S, n) == UNION {[1..m -> S] : m \in 0..n}

MakeService(head, metadata, opts) ==
    head @@ [metadata |-> metadata, spec |-> opts @@ [environment |-> Environment]]

\* several functions, named or not, with and without triggers
NamingServices ==
    {MakeService(ServiceHead, md, [functions |-> fs] @@ tp) :
        md \in Metadatas,
        fs \in SeqsUpTo(NamingFuncDefs, MaxFunctions),
        tp \in {EmptyDict, [functionTemplate |-> Restrict(FullTemplate, {"triggers"})]}}

\* one function, every shape of the package block
PackageServices ==
    {MakeService(ServiceHead, md, [functions |-> <<EntryPoint>>, package |-> pk]) :
        md \in Metadatas, pk \in PackageSpecs}

\* one function against the functionTemplate
NoMergeServices ==
    {MakeService(ServiceHead, [name |-> "api"],
                 [functions |-> <<fd>>, functionTemplate |-> tp]) :
        fd \in NoMergeFuncDefs, tp \in Templates}

\* documents of another kind or API group, and documents without spec.functions
OtherServices ==
    {MakeService(hd, [name |-> "api"], fo @@ [package |-> [source |-> [literal |-> CodeHi]]]) :
        hd \in ServiceHeads,
        fo \in {EmptyDict, [functions |-> <<>>], [functions |-> <<EntryPoint>>],
                [functions |-> <<EntryPoint, EntryPoint>>]}}

Services == NamingServices \cup PackageServices \cup NoMergeServices \cup OtherServices

ExistingItem ==
    [apiVersion |-> "v1", kind |-> "ConfigMap",
     metadata |-> [name |-> "settings", namespace |-> "default"]]

ItemLists == {<<>>, <<ExistingItem>>}

(***************************************************************************)
(* Spec: invocations of transform on a ResourceList, at any times.         *)
(***************************************************************************)
NoMerge ==
    /\ m_defaults = EmptyDict
    /\ m_overrides = EmptyDict
    /\ m_config = [called |-> FALSE]

NoZip == [made |-> FALSE, name |-> "", checksum |-> sha256_hexdigest(<<>>)]

NoPublish ==
    /\ p_pc = "idle"
    /\ p_file = [exists |-> FALSE, doc |-> EmptyDict]
    /\ p_file0 = p_file
    /\ p_dir = {}
    /\ p_args = [bucket |-> None, env |-> None]
    /\ p_zip = NoZip
    /\ p_tmp = {}
    /\ p_store = {}
    /\ p_log = <<>>
    /\ p_exit = None

Init ==
    /\ \E service \in Services, items \in ItemLists :
          krm = [functionConfig |-> service, items |-> items]
    /\ input = krm
    /\ status = "ready"
    /\ clock = 0
    /\ run = 1
    /\ prev_items = <<>>
    /\ NoMerge
    /\ NoPublish

\* time passes
Tick ==
    /\ clock < MaxClock
    /\ clock' = clock + 1
    /\ UNCHANGED <<krm, input, status, run, prev_items, m_defaults, m_overrides, m_config>>
    /\ UNCHANGED pvars

\* transform(krm), the temporary main.py being written at the current time
Transform ==
    /\ status = "ready"
    /\ LET r == transform(krm, clock) IN
          /\ krm' = [krm EXCEPT !["items"] = r.items]
          /\ status' = r.status
    /\ UNCHANGED <<input, clock, run, prev_items, m_defaults, m_overrides, m_config>>
    /\ UNCHANGED pvars

\* the same input is handed to transform once more
Restart ==
    /\ status = "ok"
    /\ run < MaxRuns
    /\ prev_items' = krm["items"]
    /\ krm' = input
    /\ status' = "ready"
    /\ run' = run + 1
    /\ UNCHANGED <<input, clock, m_defaults, m_overrides, m_config>>
    /\ UNCHANGED pvars

Next == Tick \/ Transform \/ Restart

Spec == Init /\ [][Next]_vars

(***************************************************************************)
(* SpecMerge: merge_function_config applied to a pair of mappings.         *)
(***************************************************************************)
OverridePool ==
    [name |-> "list",
     functionName |-> "main.handler",
     secrets |-> <<[name |-> "s1"]>>,
     concurrency |-> 9,
     resources |-> [limits |-> [cpu |-> "2"]],
     invokeStrategy |-> [StrategyType |-> "execution",
                         ExecutionStrategy |-> [ExecutorType |-> "newdeploy"]]]

DefaultsSet == {Restrict(FullTemplate, K) : K \in SUBSET DOMAIN FullTemplate}

OverridesSet == {Restrict(OverridePool, K) : K \in SUBSET DOMAIN OverridePool}

MergeInit ==
    /\ m_defaults \in DefaultsSet
    /\ m_overrides \in OverridesSet
    /\ m_config = [called |-> FALSE]
    /\ krm = [functionConfig |-> EmptyDict, items |-> <<>>]
    /\ input = krm
    /\ status = "idle"
    /\ clock = 0
    /\ run = 1
    /\ prev_items = <<>>
    /\ NoPublish

Merge ==
    /\ ~m_config.called
    /\ m_config' = [called |-> TRUE, value |-> merge_function_config(m_defaults, m_overrides)]
    /\ UNCHANGED <<krm, input, status, clock, run, prev_items, m_defaults, m_overrides>>
    /\ UNCHANGED pvars

MergeNext == Merge

SpecMerge == MergeInit /\ [][MergeNext]_vars

(***************************************************************************)
(* kubed/kubectl/fn.py: pack                                               *)
(* The source directory holds files of fixed content and mtime; fnmatch is *)
(* the table of the names and patterns in use.  An archive is the          *)
(* concatenation of its members, each with its name, DOS time and data.    *)
(***************************************************************************)
DirOrder == <<"build.sh", "main.py", "util.py">>

FileData == [x \in {"build.sh", "main.py", "util.py"} |->
                CASE x = "build.sh" -> <<35, 33>>
                  [] x = "main.py" -> <<112, 121>>
                  [] x = "util.py" -> <<117>>]

FileNameCode == [x \in {"build.sh", "main.py", "util.py"} |->
                    CASE x = "build.sh" -> 98
                      [] x = "main.py" -> 109
                      [] x = "util.py" -> 117]

FileMtime == 0

fnmatch(name, pattern) ==
    \/ pattern = name
    \/ pattern = "*.py" /\ name \in {"main.py", "util.py"}
    \/ pattern = "*"

startswith_serverless(apiVersion) == apiVersion \in {"serverless.krm.kubed.io/v1"}

is_service(service) ==
    /\ Get(service, "kind", None) = "Service"
    /\ startswith_serverless(Get(service, "apiVersion", ""))

InSeq(x, sq) == \E k \in 1..Len(sq) : sq[k] = x

embedded_files(source_spec) ==
    IF Has(source_spec, "literal") /\ source_spec["literal"] # <<>>
    THEN [x \in {"main.py"} |-> source_spec["literal"]]
    ELSE EmptyDict

RECURSIVE collect_files(_, _, _, _, _)
collect_files(files_to_pack, pattern, k, dir, embedded) ==
    IF k > Len(DirOrder) THEN files_to_pack
    ELSE LET f == DirOrder[k] IN
         collect_files(IF /\ f \in dir
                          /\ fnmatch(f, pattern)
                          /\ ~Has(embedded, f)
                          /\ ~InSeq(f, files_to_pack)
                       THEN Append(files_to_pack, f)
                       ELSE files_to_pack,
                       pattern, k + 1, dir, embedded)

RECURSIVE collect_patterns(_, _, _, _, _)
collect_patterns(files_to_pack, include_patterns, i, dir, embedded) ==
    IF i > Len(include_patterns) THEN files_to_pack
    ELSE collect_patterns(collect_files(files_to_pack, include_patterns[i], 1, dir, embedded),
                          include_patterns, i + 1, dir, embedded)

with_buildcmd(files_to_pack, buildcmd, dir, embedded) ==
    IF /\ Truthy(buildcmd)
       /\ buildcmd \in dir
       /\ ~InSeq(buildcmd, files_to_pack)
       /\ ~Has(embedded, buildcmd)
    THEN Append(files_to_pack, buildcmd)
    ELSE files_to_pack

pack_member(name, data, mtime) == <<80, 75, DosTime(mtime), FileNameCode[name]>> \o data

RECURSIVE pack_members(_, _)
pack_members(files_to_pack, k) ==
    IF k > Len(files_to_pack) THEN <<>>
    ELSE pack_member(files_to_pack[k], FileData[files_to_pack[k]], FileMtime)
         \o pack_members(files_to_pack, k + 1)

pack_archive(embedded, files_to_pack, now) ==
    (IF Has(embedded, "main.py") THEN pack_member("main.py", embedded["main.py"], now) ELSE <<>>)
    \o pack_members(files_to_pack, 1)

pack(file, dir, now) ==
    IF ~file.exists \/ ~is_service(file.doc)
    THEN [ok |-> FALSE, name |-> "", checksum |-> sha256_hexdigest(<<>>)]
    ELSE
    LET service == file.doc
        spec == Get(service, "spec", EmptyDict)
        package_spec == Get(spec, "package", EmptyDict)
        include_patterns == Get(package_spec, "include", <<>>)
        package_name == Get(package_spec, "name", service["metadata"]["name"])
        source_spec == Get(package_spec, "source", EmptyDict)
        embedded == embedded_files(source_spec)
        archive_name == package_name \o "-" \o ToString(now) \o ".zip"
        files_to_pack ==
            with_buildcmd(collect_patterns(<<>>, include_patterns, 1, dir, embedded),
                          Get(package_spec, "buildcmd", None), dir, embedded)
    IN  IF files_to_pack = <<>> /\ embedded = EmptyDict
        THEN [ok |-> FALSE, name |-> "", checksum |-> sha256_hexdigest(<<>>)]
        ELSE [ok |-> TRUE, name |-> archive_name,
              checksum |-> sha256_hexdigest(pack_archive(embedded, files_to_pack, now))]

(***************************************************************************)
(* kubed/kubectl/fn.py: publish                                            *)
(***************************************************************************)
DefaultBucket == "kellyferrone-functions"

bucket_name(args) ==
    IF Truthy(args.bucket) THEN args.bucket
    ELSE IF args.env # None THEN args.env
    ELSE DefaultBucket

public_url(args, archive_name) ==
    "https://storage.googleapis.com/" \o bucket_name(args) \o "/" \o archive_name

updated_service(service, url, checksum) ==
    LET spec == Get(service, "spec", EmptyDict)
        package == Get(spec, "package", EmptyDict)
        source0 == Get(package, "source", EmptyDict)
        source1 == Put(Put(source0, "type", "url"), "url", url)
        checksum0 == Get(source1, "checksum", EmptyDict)
        checksum1 == Put(Put(checksum0, "type", "sha256"), "sum", checksum)
        spec1 == Put(spec, "package", Put(package, "source", Put(source1, "checksum", checksum1)))
    IN  IF Has(service, "spec") THEN Put(service, "spec", spec1) ELSE service

(***************************************************************************)
(* SpecPublish: one call of publish on a service file, step by step; the   *)
(* two gsutil calls return any code.                                       *)
(***************************************************************************)
OldChecksum == [type |-> "md5", sum |-> StaleSum, algorithm |-> "legacy"]

PublishPackageOpts ==
    {EmptyDict,
     [package |-> [include |-> <<"*.py">>]],
     [package |-> [include |-> <<"*.txt">>]],
     [package |-> [include |-> <<"*.py">>,
                   source |-> [type |-> "url", url |-> "https://example.com/a.zip",
                               checksum |-> OldChecksum]]],
     [package |-> [source |-> [literal |-> CodeHi]]],
     [package |-> [name |-> "pkg", include |-> <<"main.py", "*.py">>, buildcmd |-> "build.sh",
                   source |-> [type |-> "literal", literal |-> CodePrint]]],
     [package |-> [source |-> [url |-> "https://example.com/a.zip", checksum |-> [sum |-> StaleSum]],
                   buildcmd |-> "build.sh"]]}

PublishFiles ==
    {[exists |-> FALSE, doc |-> EmptyDict]}
    \cup {[exists |-> TRUE, doc |-> MakeService(hd, [name |-> "api"], po)] :
            hd \in ServiceHeads, po \in PublishPackageOpts}

PublishDirs == {{}, {"build.sh", "main.py", "util.py"}}

PublishArgs == [bucket : {None, "my-bucket"}, env : {None, "env-bucket"}]

ReturnCodes == {0, 1}

PublishInit ==
    /\ p_pc = "start"
    /\ p_file \in PublishFiles
    /\ p_file0 = p_file
    /\ p_dir \in PublishDirs
    /\ p_args \in PublishArgs
    /\ p_zip = NoZip
    /\ p_tmp = {}
    /\ p_store = {}
    /\ p_log = <<>>
    /\ p_exit = None
    /\ krm = [functionConfig |-> EmptyDict, items |-> <<>>]
    /\ input = krm
    /\ status = "idle"
    /\ clock = 0
    /\ run = 1
    /\ prev_items = <<>>
    /\ NoMerge

tvars == <<krm, input, status, clock, run, prev_items, m_defaults, m_overrides, m_config>>

\* the service file is found, loaded and validated
PublishValidate ==
    /\ p_pc = "start"
    /\ IF ~p_file.exists \/ ~is_service(p_file.doc)
       THEN p_pc' = "exit" /\ p_exit' = "validate"
       ELSE p_pc' = "pack" /\ p_exit' = p_exit
    /\ UNCHANGED <<p_file, p_file0, p_dir, p_args, p_zip, p_tmp, p_store, p_log>>
    /\ UNCHANGED tvars

\* zip_path, checksum = pack(service_file, output=None)
PublishPack ==
    /\ p_pc = "pack"
    /\ LET r == pack(p_file, p_dir, clock) IN
          IF r.ok
          THEN /\ p_zip' = [made |-> TRUE, name |-> r.name, checksum |-> r.checksum]
               /\ p_tmp' = p_tmp \cup {r.name}
               /\ p_pc' = "upload"
               /\ p_exit' = p_exit
          ELSE /\ p_pc' = "exit"
               /\ p_exit' = "pack"
               /\ UNCHANGED <<p_zip, p_tmp>>
    /\ UNCHANGED <<p_file, p_file0, p_dir, p_args, p_store, p_log>>
    /\ UNCHANGED tvars

\* an upload whose failure is only reported
PublishUpload_nonfatal ==
    /\ p_pc = "upload"
    /\ \E returncode \in ReturnCodes :
          /\ p_log' = Append(p_log, [call |-> "cp", returncode |-> returncode])
          /\ p_store' = IF returncode = 0
                        THEN p_store \cup {[bucket |-> bucket_name(p_args), name |-> p_zip.name,
                                            public |-> FALSE]}
                        ELSE p_store
          /\ p_pc' = "acl"
    /\ UNCHANGED <<p_file, p_file0, p_dir, p_args, p_zip, p_tmp, p_exit>>
    /\ UNCHANGED tvars

\* gsutil cp zip_path gcs_path
PublishUpload ==
    /\ p_pc = "upload"
    /\ \E returncode \in ReturnCodes :
          /\ p_log' = Append(p_log, [call |-> "cp", returncode |-> returncode])
          /\ IF returncode # 0
             THEN p_pc' = "exit" /\ p_exit' = "upload" /\ p_store' = p_store
             ELSE /\ p_store' = p_store \cup {[bucket |-> bucket_name(p_args),
                                               name |-> p_zip.name, public |-> FALSE]}
                  /\ p_pc' = "acl"
                  /\ p_exit' = p_exit
    /\ UNCHANGED <<p_file, p_file0, p_dir, p_args, p_zip, p_tmp>>
    /\ UNCHANGED tvars

\* gsutil acl ch -u AllUsers:R gcs_path
PublishAcl ==
    /\ p_pc = "acl"
    /\ \E returncode \in ReturnCodes :
          /\ p_log' = Append(p_log, [call |-> "acl", returncode |-> returncode])
          /\ p_store' = IF returncode = 0
                        THEN {[o EXCEPT !.public =
                                  @ \/ (o.bucket = bucket_name(p_args) /\ o.name = p_zip.name)] :
                                o \in p_store}
                        ELSE p_store
    /\ p_pc' = "update"
    /\ UNCHANGED <<p_file, p_file0, p_dir, p_args, p_zip, p_tmp, p_exit>>
    /\ UNCHANGED tvars

\* the service file is rewritten and the temporary archive removed
PublishUpdate ==
    /\ p_pc = "update"
    /\ p_file' = [exists |-> TRUE,
                  doc |-> updated_service(p_file.doc, public_url(p_args, p_zip.name),
                                          p_zip.checksum)]
    /\ p_log' = Append(p_log, [call |-> "write", returncode |-> 0])
    /\ p_tmp' = p_tmp \ {p_zip.name}
    /\ p_pc' = "done"
    /\ UNCHANGED <<p_file0, p_dir, p_args, p_zip, p_store, p_exit>>
    /\ UNCHANGED tvars

PublishNext ==
    Tick \/ PublishValidate \/ PublishPack \/ PublishUpload \/ PublishAcl \/ PublishUpdate

SpecPublish == PublishInit /\ [][PublishNext]_vars

(***************************************************************************)
(* Vocabulary of the properties: the Service on entry, and the resources   *)
(* transform has appended to krm["items"].                                 *)
(***************************************************************************)
Svc == input["functionConfig"]
SvcName == Svc["metadata"]["name"]
SvcNamespace == Get(Svc["metadata"], "namespace", "default")
Fns == Get(Svc["spec"], "functions", <<>>)
Tmpl == Get(Svc["spec"], "functionTemplate", EmptyDict)
Unnamed == {i \in 1..Len(Fns) : "name" \notin DOMAIN Fns[i]}

Returned == status = "ok"
Failed == status = "failed"

Generated == SubSeq(krm["items"], Len(input["items"]) + 1, Len(krm["items"]))
FnPos == SelectSeq([k \in 1..Len(Generated) |-> k], LAMBDA k : Generated[k]["kind"] = "Function")
FunctionOf(i) == Generated[FnPos[i]]
TriggersOf(i) ==
    SubSeq(Generated, FnPos[i] + 1,
           IF i < Len(FnPos) THEN FnPos[i + 1] - 1 ELSE Len(Generated))

\* the no-merge rule: the definition's value if declared, else the template's, else empty
Resolved(fd, field) ==
    IF field \in DOMAIN fd THEN fd[field]
    ELSE IF field \in DOMAIN Tmpl THEN Tmpl[field]
    ELSE <<>>

\* every definition has its Function, followed by one HTTPTrigger per resolved trigger
Paired ==
    /\ Len(FnPos) = Len(Fns)
    /\ \A i \in 1..Len(Fns) : Len(TriggersOf(i)) = Len(Resolved(Fns[i], "triggers"))

(***************************************************************************)
(* C1 - as stated: a Service with exactly one unnamed function, whatever   *)
(* the number of named ones, is transformed and that function's Function   *)
(* is named after the service; with more than one unnamed function         *)
(* transform fails.                                                        *)
(***************************************************************************)
C1_OneUnnamedAmongAny ==
    status # "ready" =>
        /\ Cardinality(Unnamed) = 1 =>
              /\ Returned
              /\ Len(FnPos) = Len(Fns)
              /\ \A i \in Unnamed : FunctionOf(i)["metadata"]["name"] = SvcName
        /\ (Len(Fns) >= 2 /\ Cardinality(Unnamed) > 1) => Failed

(***************************************************************************)
(* C1 - amended: a Service whose only function is unnamed is transformed   *)
(* and its Function is named after the service; a Service with two or      *)
(* more functions of which at least one is unnamed fails.                  *)
(***************************************************************************)
C1_UnnamedOnlyWhenAlone ==
    status # "ready" =>
        /\ (Len(Fns) = 1 /\ Cardinality(Unnamed) = 1) =>
              /\ Returned
              /\ Len(FnPos) = 1
              /\ FunctionOf(1)["metadata"]["name"] = SvcName
        /\ (Len(Fns) >= 2 /\ Cardinality(Unnamed) >= 1) => Failed

C1_Witness ==
    /\ Returned
    /\ Len(Fns) = 1
    /\ Unnamed = {1}
    /\ FunctionOf(1)["metadata"]["name"] = SvcName

(***************************************************************************)
(* C2 - when transform fails a validation of spec.functions, items holds   *)
(* exactly the documents it held on entry.                                 *)
(***************************************************************************)
C2_NoPartialOutput == Failed => krm["items"] = input["items"]

(***************************************************************************)
(* C3 - every HTTPTrigger has as relativeurl the trigger's explicit path,  *)
(* else /<service> when the function's short name is the service name,     *)
(* else /<service>/<short name>; its method is the given one or GET, its   *)
(* host the given one or the empty string.                                 *)
(***************************************************************************)
ShortNameOf(fd) == IF "name" \in DOMAIN fd THEN fd["name"] ELSE SvcName

C3_TriggerRoute ==
    Returned =>
        /\ Paired
        /\ \A i \in 1..Len(Fns) : \A j \in 1..Len(TriggersOf(i)) :
              LET given == Resolved(Fns[i], "triggers")[j]
                  http == IF "http" \in DOMAIN given THEN given["http"] ELSE EmptyDict
                  out == TriggersOf(i)[j]["spec"]
              IN  /\ out["relativeurl"] =
                        IF "path" \in DOMAIN http THEN http["path"]
                        ELSE IF ShortNameOf(Fns[i]) = SvcName THEN "/" \o SvcName
                        ELSE "/" \o SvcName \o "/" \o ShortNameOf(Fns[i])
                  /\ out["method"] = (IF "method" \in DOMAIN http THEN http["method"] ELSE "GET")
                  /\ out["host"] = (IF "host" \in DOMAIN http THEN http["host"] ELSE "")

C3_Witness ==
    /\ Returned
    /\ Len(Fns) = 2
    /\ "name" \in DOMAIN Fns[1] /\ Fns[1]["name"] = SvcName
    /\ Len(TriggersOf(1)) = 1
    /\ TriggersOf(1)[1]["spec"]["relativeurl"] = "/api"
    /\ Len(TriggersOf(2)) = 2
    /\ TriggersOf(2)[1]["spec"]["relativeurl"] = "/custom"
    /\ TriggersOf(2)[2]["spec"]["relativeurl"] = "/api/list"
    /\ TriggersOf(2)[2]["spec"]["method"] = "POST"

(***************************************************************************)
(* C4 - a Function is named after the service when its definition has no   *)
(* name and <service>-<name> when it has one, also when that name is the   *)
(* service name; its HTTPTriggers reference it by that generated name.     *)
(***************************************************************************)
C4_FunctionName ==
    Returned =>
        /\ Paired
        /\ \A i \in 1..Len(Fns) :
              /\ FunctionOf(i)["metadata"]["name"] =
                    IF "name" \in DOMAIN Fns[i] THEN SvcName \o "-" \o Fns[i]["name"]
                    ELSE SvcName
              /\ \A j \in 1..Len(TriggersOf(i)) :
                    TriggersOf(i)[j]["spec"]["functionref"]["name"]
                        = FunctionOf(i)["metadata"]["name"]

C4_Witness ==
    /\ Returned
    /\ Len(Fns) = 2
    /\ "name" \in DOMAIN Fns[1] /\ Fns[1]["name"] = SvcName
    /\ FunctionOf(1)["metadata"]["name"] = "api-api"
    /\ FunctionOf(2)["metadata"]["name"] = "api-get"
    /\ Len(TriggersOf(1)) = 2
    /\ TriggersOf(1)[2]["spec"]["functionref"]["name"] = "api-api"

(***************************************************************************)
(* C5 - secrets, configmaps and triggers of a function are the             *)
(* definition's own value if it declares the field (even as an empty       *)
(* list), else functionTemplate's, else empty; nothing is combined.        *)
(***************************************************************************)
NormalizedRefs(refs) ==
    [k \in 1..Len(refs) |->
        [name |-> refs[k]["name"],
         namespace |-> IF "namespace" \in DOMAIN refs[k] THEN refs[k]["namespace"]
                       ELSE SvcNamespace]]

RefsOn(function, field) ==
    IF field \in DOMAIN function["spec"] THEN function["spec"][field] ELSE <<>>

C5_NoMerge ==
    Returned =>
        /\ Len(FnPos) = Len(Fns)
        /\ \A i \in 1..Len(Fns) :
              /\ RefsOn(FunctionOf(i), "secrets") = NormalizedRefs(Resolved(Fns[i], "secrets"))
              /\ RefsOn(FunctionOf(i), "configmaps")
                    = NormalizedRefs(Resolved(Fns[i], "configmaps"))
              /\ Len(TriggersOf(i)) = Len(Resolved(Fns[i], "triggers"))
              /\ \A j \in 1..Len(TriggersOf(i)) :
                    LET given == Resolved(Fns[i], "triggers")[j]
                        http == IF "http" \in DOMAIN given THEN given["http"] ELSE EmptyDict
                    IN  TriggersOf(i)[j]["spec"]["method"]
                            = (IF "method" \in DOMAIN http THEN http["method"] ELSE "GET")

C5_Witness ==
    /\ Returned
    /\ Len(Fns) = 1
    /\ "secrets" \in DOMAIN Fns[1] /\ Fns[1]["secrets"] = <<>>
    /\ "triggers" \in DOMAIN Fns[1] /\ Fns[1]["triggers"] = <<>>
    /\ "configmaps" \notin DOMAIN Fns[1]
    /\ "secrets" \in DOMAIN Tmpl /\ Tmpl["secrets"] # <<>>
    /\ "triggers" \in DOMAIN Tmpl /\ Tmpl["triggers"] # <<>>
    /\ "secrets" \notin DOMAIN FunctionOf(1)["spec"]
    /\ FunctionOf(1)["spec"]["configmaps"] = <<[name |-> "c0", namespace |-> "default"]>>
    /\ TriggersOf(1) = <<>>

(***************************************************************************)
(* C6 - merge_function_config: an empty override returns defaults; every   *)
(* mergeable field of overrides replaces the default's value as a whole;   *)
(* every other field of the result is defaults' field with defaults'       *)
(* value, so no other field of overrides appears unless defaults had it.   *)
(***************************************************************************)
MergeableSet ==
    {"invokeStrategy", "requestsPerPod", "retainPods", "concurrency", "functionTimeout",
     "idletimeout", "onceOnly", "resources", "podspec"}

C6_Merge ==
    m_config.called =>
        LET result == m_config.value
            replaced == MergeableSet \cap DOMAIN m_overrides
        IN  /\ m_overrides = EmptyDict => result = m_defaults
            /\ DOMAIN result = DOMAIN m_defaults \cup replaced
            /\ \A k \in replaced : result[k] = m_overrides[k]
            /\ \A k \in DOMAIN result \ replaced : result[k] = m_defaults[k]

C6_Witness ==
    /\ m_config.called
    /\ {"resources", "secrets"} \subseteq DOMAIN m_defaults
    /\ {"resources", "secrets", "name"} \subseteq DOMAIN m_overrides
    /\ m_config.value["resources"] = [limits |-> [cpu |-> "2"]]
    /\ m_config.value["secrets"] = <<[name |-> "s0"]>>
    /\ "name" \notin DOMAIN m_config.value

(***************************************************************************)
(* C7 - transform is deterministic: a second invocation on the identical   *)
(* input, at any later time, returns the items the first one returned.     *)
(***************************************************************************)
C7_Deterministic == (Returned /\ run > 1) => krm["items"] = prev_items

(***************************************************************************)
(* C8 - a source with a `literal` key whose type is literal (given, or no  *)
(* type given) becomes exactly {type: literal, literal: base64 of the      *)
(* archive, checksum: {type: sha256, sum: SHA-256 of the same archive}};   *)
(* the type is the explicit one, else literal if `literal` is present,     *)
(* else url if `url` is present, else unset.                               *)
(***************************************************************************)
HasSource ==
    /\ "package" \in DOMAIN Svc["spec"]
    /\ "source" \in DOMAIN Svc["spec"]["package"]

SourceIn == Svc["spec"]["package"]["source"]
SourceOut == Generated[1]["spec"]["source"]

TypeByPriority(src) ==
    CASE "type" \in DOMAIN src -> src["type"]
      [] "type" \notin DOMAIN src /\ "literal" \in DOMAIN src -> "literal"
      [] {"type", "literal"} \cap DOMAIN src = {} /\ "url" \in DOMAIN src -> "url"
      [] OTHER -> None

C8_LiteralSource ==
    (status # "ready" /\ HasSource) =>
        /\ Generated[1]["kind"] = "Package"
        /\ ("literal" \in DOMAIN SourceIn /\ TypeByPriority(SourceIn) = "literal") =>
              /\ DOMAIN SourceOut = {"type", "literal", "checksum"}
              /\ \E mtime \in 0..clock :
                    LET archive == zip_bytes(SourceIn["literal"], mtime) IN
                    /\ SourceOut["type"] = "literal"
                    /\ SourceOut["literal"] = b64encode(archive)
                    /\ SourceOut["checksum"]
                          = [type |-> "sha256", sum |-> sha256_hexdigest(archive)]
        /\ inferred_type(SourceIn) = TypeByPriority(SourceIn)
        /\ SourceOut["type"] =
              IF TypeByPriority(SourceIn) = None THEN "url" ELSE TypeByPriority(SourceIn)

C8_Witness ==
    /\ Returned
    /\ HasSource
    /\ DOMAIN SourceIn = {"type", "literal", "url", "checksum"}
    /\ SourceIn["type"] = "literal"
    /\ DOMAIN SourceOut = {"type", "literal", "checksum"}
    /\ SourceOut["checksum"]["type"] = "sha256"
    /\ SourceOut["checksum"]["sum"] # SourceIn["checksum"]["sum"]

(***************************************************************************)
(* C9 - a functionConfig whose kind is not Service, or whose apiVersion    *)
(* is not of the serverless API group, is rejected: transform never        *)
(* returns with resources generated for it and appended to items.          *)
(***************************************************************************)
ServerlessApiVersions == {"serverless.krm.kubed.io/v1"}

IsServerlessService(doc) ==
    doc["kind"] = "Service" /\ doc["apiVersion"] \in ServerlessApiVersions

C9_RejectsOtherKinds == ~IsServerlessService(Svc) => ~(Returned /\ Generated # <<>>)

(***************************************************************************)
(* C10 - no two resources of the same kind generated by a successful       *)
(* transform share metadata.name and metadata.namespace.                   *)
(***************************************************************************)
C10_CollisionFree ==
    Returned =>
        \A a, b \in 1..Len(Generated) :
            (a # b /\ Generated[a]["kind"] = Generated[b]["kind"]) =>
                \/ Generated[a]["metadata"]["name"] # Generated[b]["metadata"]["name"]
                \/ Generated[a]["metadata"]["namespace"] # Generated[b]["metadata"]["namespace"]

(***************************************************************************)
(* C13 - a successful transform returns the input items, unmodified and in *)
(* order, followed by one Package, then for each function definition in    *)
(* input order one Function immediately followed by one HTTPTrigger per    *)
(* resolved trigger in trigger order: 1 + |functions| + the resolved       *)
(* trigger counts are appended, and nothing else of the input changes.     *)
(***************************************************************************)
RECURSIVE ExpectedKinds(_)
ExpectedKinds(i) ==
    IF i > Len(Fns) THEN <<>>
    ELSE <<"Function">>
         \o [j \in 1..Len(Resolved(Fns[i], "triggers")) |-> "HTTPTrigger"]
         \o ExpectedKinds(i + 1)

RECURSIVE ResolvedTriggerCount(_)
ResolvedTriggerCount(i) ==
    IF i > Len(Fns) THEN 0
    ELSE Len(Resolved(Fns[i], "triggers")) + ResolvedTriggerCount(i + 1)

GivenHttp(i, j) ==
    LET given == Resolved(Fns[i], "triggers")[j] IN
    IF "http" \in DOMAIN given THEN given["http"] ELSE EmptyDict

C13_AppendedInOrder ==
    Returned =>
        /\ Len(krm["items"]) = Len(input["items"]) + 1 + Len(Fns) + ResolvedTriggerCount(1)
        /\ SubSeq(krm["items"], 1, Len(input["items"])) = input["items"]
        /\ [k \in 1..Len(Generated) |-> Generated[k]["kind"]] = <<"Package">> \o ExpectedKinds(1)
        /\ \A i \in 1..Len(Fns) :
              /\ FunctionOf(i)["metadata"]["name"]
                    = (IF "name" \in DOMAIN Fns[i] THEN SvcName \o "-" \o Fns[i]["name"]
                       ELSE SvcName)
              /\ \A j \in 1..Len(TriggersOf(i)) :
                    /\ TriggersOf(i)[j]["spec"]["method"]
                          = (IF "method" \in DOMAIN GivenHttp(i, j) THEN GivenHttp(i, j)["method"]
                             ELSE "GET")
                    /\ TriggersOf(i)[j]["spec"]["host"]
                          = (IF "host" \in DOMAIN GivenHttp(i, j) THEN GivenHttp(i, j)["host"]
                             ELSE "")
        /\ DOMAIN krm = DOMAIN input
        /\ krm["functionConfig"] = input["functionConfig"]

C13_Witness ==
    /\ Returned
    /\ input["items"] = <<ExistingItem>>
    /\ Len(Fns) = 2
    /\ [k \in 1..Len(krm["items"]) |-> krm["items"][k]["kind"]]
          = <<"ConfigMap", "Package", "Function", "HTTPTrigger", "HTTPTrigger",
              "Function", "HTTPTrigger">>
    /\ krm["items"][4]["spec"]["host"] = "example.com"
    /\ krm["items"][5]["spec"]["method"] = "POST"

(***************************************************************************)
(* C11 - publish orders its side effects: a validation or packing failure  *)
(* ends publish before any upload is attempted; an upload failure ends it  *)
(* with the service file unchanged; the service file is written only after *)
(* validation, packing and the upload have succeeded; a failure to set the *)
(* permissions does not end publish, which still rewrites the file.        *)
(***************************************************************************)
Logged(call, returncode) ==
    {k \in 1..Len(p_log) : p_log[k] = [call |-> call, returncode |-> returncode]}

C11_OrderedSideEffects ==
    /\ p_exit \in {"validate", "pack"} =>
          /\ p_pc = "exit"
          /\ p_log = <<>>
          /\ p_store = {}
          /\ p_file = p_file0
    /\ p_exit = "upload" =>
          /\ p_pc = "exit"
          /\ p_log = <<[call |-> "cp", returncode |-> 1]>>
          /\ p_file = p_file0
    /\ \A k \in Logged("write", 0) :
          /\ p_file0.exists /\ IsServerlessService(p_file0.doc)
          /\ p_zip.made
          /\ \E j \in Logged("cp", 0) : j < k
    /\ p_file # p_file0 => Logged("write", 0) # {}
    /\ Logged("acl", 1) # {} =>
          /\ p_exit = None
          /\ p_pc \in {"update", "done"}
    /\ p_pc = "done" =>
          /\ p_exit = None
          /\ Len(p_log) = 3
          /\ p_log[3] = [call |-> "write", returncode |-> 0]
          /\ p_file # p_file0

C11_Witness ==
    /\ p_pc = "done"
    /\ p_log = <<[call |-> "cp", returncode |-> 0], [call |-> "acl", returncode |-> 1],
                 [call |-> "write", returncode |-> 0]>>
    /\ p_file # p_file0
    /\ \A o \in p_store : ~o.public

(***************************************************************************)
(* C12 - after a successful publish spec.package.source of the service     *)
(* file is {type: url, url: the public URL of the uploaded archive,        *)
(* checksum: {type: sha256, sum: the checksum pack returned}} plus only    *)
(* the other sub-fields its checksum already had, whatever the source      *)
(* block was before.                                                       *)
(***************************************************************************)
PackageBefore == Get(Get(p_file0.doc, "spec", EmptyDict), "package", EmptyDict)
SourceBefore == Get(PackageBefore, "source", EmptyDict)
ChecksumBefore == Get(SourceBefore, "checksum", EmptyDict)
SourceAfter == p_file.doc["spec"]["package"]["source"]

C12_SourceAfterPublish ==
    p_pc = "done" =>
        /\ DOMAIN SourceAfter = {"type", "url", "checksum"}
        /\ SourceAfter["type"] = "url"
        /\ \E o \in p_store :
              SourceAfter["url"]
                  = "https://storage.googleapis.com/" \o o.bucket \o "/" \o o.name
        /\ DOMAIN SourceAfter["checksum"] = {"type", "sum"} \cup DOMAIN ChecksumBefore
        /\ SourceAfter["checksum"]["type"] = "sha256"
        /\ SourceAfter["checksum"]["sum"] = p_zip.checksum
        /\ \A k \in DOMAIN ChecksumBefore \ {"type", "sum"} :
              SourceAfter["checksum"][k] = ChecksumBefore[k]

====
